---- MODULE Spec2Model ----
(***************************************************************************)
(* Client-side session lifecycle of the trainer_bot frontend:              *)
(*   - the zustand session store (stores/authStore.ts): user, accessToken, *)
(*     isAuthenticated, login / register / logout / setAccessToken, and    *)
(*     the persist middleware that writes partialize(state) under the key  *)
(*     'auth-storage';                                                     *)
(*   - the axios gateway (services/api.ts): the request interceptor that   *)
(*     attaches the bearer token and the response interceptor that runs    *)
(*     the one-shot 401 -> refresh -> retry sequence;                      *)
(*   - the route guard of App.tsx.                                         *)
(* The JavaScript runtime is single-threaded: every action below is one    *)
(* run-to-completion task (a caller's call up to its first network         *)
(* suspension, or the continuation that a network answer resumes).         *)
(***************************************************************************)
EXTENDS Integers, Sequences, FiniteSets, TLC

\* ------------------------------------------------------------------ bounds
NumRequests == 2        \* request slots that may be in flight together
NumUsers == 1           \* distinct user identities the server may return
NumAccessTokens == 2    \* distinct access tokens the server may issue
NumRefreshTokens == 1   \* distinct refresh tokens the server may issue
MaxAttempts == 3        \* cap on the submissions of one original request

\* --------------------------------------------------------------- constants
Unauthorized == 401     \* the status the response interceptor reacts to
Ok == 200               \* a 2xx answer
ServerError == 500      \* representative of every non-401 error status
NoResponse == 0         \* network error / timeout: error.response undefined

Null == 0
Requests == 1..NumRequests
Users == 1..NumUsers
AccessTokens == 1..NumAccessTokens
RefreshTokens == 1..NumRefreshTokens
Kinds == {"get", "login", "register"}
ErrorStatuses == {Unauthorized, ServerError, NoResponse}

VARIABLES
    state,          \* useAuthStore.getState(): user, accessToken, isAuthenticated
    localStorage,   \* durable storage: keys 'refreshToken' and 'auth-storage'
    location,       \* current route of the browser
    req,            \* per request slot: the axios config and the call's progress
    sinceLogout     \* history: logout has run and no login has succeeded since

vars == <<state, localStorage, location, req, sinceLogout>>

\* ------------------------------------------------------------ session store
\* The state creator's initial fields (authStore.ts 31-33).
InitialState == [user |-> Null, accessToken |-> Null, isAuthenticated |-> FALSE]

\* Variant of partialize that persists the whole state.
partializeAll(s) == s

\* persist option partialize: only user crosses the persistence boundary.
partialize(s) == [user |-> s.user]

\* zustand set(partial): shallow merge of the partial into the state.
set(s, partial) ==
    [k \in DOMAIN s |-> IF k \in DOMAIN partial THEN partial[k] ELSE s[k]]

\* The persist middleware writes partialize(state) under 'auth-storage'
\* after every set.
persist(s, ls) == [ls EXCEPT !.authStorage = partialize(s)]

\* Variant of rehydration that never reads the persisted blob.
rehydrateIgnoresStorage(ls) == InitialState

\* Rehydration at store creation: the persisted blob merged over the
\* initial state.
rehydrate(ls) == set(InitialState, ls.authStorage)

World(s, ls) == [state |-> s, localStorage |-> ls]

\* Variant of login that does not write the refresh credential.
loginSuccessNoRefreshToken(w, data) ==
    LET s1 == set(w.state, [user |-> data.user,
                            accessToken |-> data.access_token,
                            isAuthenticated |-> TRUE])
    IN World(s1, persist(s1, w.localStorage))

\* login, success branch (authStore.ts 38-47).
loginSuccess(w, data) ==
    LET ls1 == [w.localStorage EXCEPT !.refreshToken = data.refresh_token]
        s1 == set(w.state, [user |-> data.user,
                            accessToken |-> data.access_token,
                            isAuthenticated |-> TRUE])
    IN World(s1, persist(s1, ls1))

\* Variants of logout that forget one of its assignments.
logoutKeepsAccessToken(w) ==
    LET ls1 == [w.localStorage EXCEPT !.refreshToken = Null]
        s1 == set(w.state, [user |-> Null, isAuthenticated |-> FALSE])
    IN World(s1, persist(s1, ls1))

logoutKeepsRefreshToken(w) ==
    LET s1 == set(w.state, [user |-> Null,
                            accessToken |-> Null,
                            isAuthenticated |-> FALSE])
    IN World(s1, persist(s1, w.localStorage))

\* logout (authStore.ts 65-72).
logout(w) ==
    LET ls1 == [w.localStorage EXCEPT !.refreshToken = Null]
        s1 == set(w.state, [user |-> Null,
                            accessToken |-> Null,
                            isAuthenticated |-> FALSE])
    IN World(s1, persist(s1, ls1))

\* Variant of setAccessToken that replaces the whole state.
setAccessTokenReplacesState(w, token) ==
    LET s1 == set(InitialState, [accessToken |-> token])
    IN World(s1, persist(s1, w.localStorage))

\* Variant of setAccessToken that also marks the session authenticated.
setAccessTokenAuthenticates(w, token) ==
    LET s1 == set(w.state, [accessToken |-> token, isAuthenticated |-> TRUE])
    IN World(s1, persist(s1, w.localStorage))

\* Variant of setAccessToken that does not write the store.
setAccessTokenDropped(w, token) == w

\* setAccessToken (authStore.ts 74-76).
setAccessToken(w, token) ==
    LET s1 == set(w.state, [accessToken |-> token])
    IN World(s1, persist(s1, w.localStorage))

\* ------------------------------------------------------------------ gateway
NoHeader == <<>>
Bearer(token) == <<"Bearer", token>>
Headers == {NoHeader} \cup {Bearer(t) : t \in AccessTokens}

\* Variant of the request interceptor without the truthiness test.
requestInterceptorAlwaysAttaches(config, s) ==
    [config EXCEPT !.auth = Bearer(s.accessToken)]

\* Request interceptor (api.ts 13-20): attach the store's token when truthy,
\* leave the config's header as it is otherwise.
requestInterceptor(config, s) ==
    IF s.accessToken # Null
    THEN [config EXCEPT !.auth = Bearer(s.accessToken)]
    ELSE config

\* Variant of the test that reacts to every error status.
shouldRefreshAnyError(status, retry) == ~retry

\* Variant of the test that shares one refresh call among the requests.
shouldRefreshSingleFlight(status, retry) ==
    /\ status = Unauthorized
    /\ ~retry
    /\ \A q \in Requests : req[q].pc # "refreshing"

\* Variant of the test without the _retry flag.
shouldRefreshNoFlag(status, retry) == status = Unauthorized

\* Response interceptor's test (api.ts 31).
shouldRefresh(status, retry) == status = Unauthorized /\ ~retry

NoMessage == <<>>
NoResult == [kind |-> "none", attempt |-> 0, status |-> NoResponse]
NoData == [user |-> Null, access_token |-> Null, refresh_token |-> Null]
Idle == [kind |-> "get", pc |-> "idle", retry |-> FALSE, auth |-> NoHeader,
         sends |-> 0, refreshes |-> 0, result |-> NoResult, data |-> NoData,
         touched |-> FALSE, seen |-> Ok, message |-> NoMessage]

\* The error envelope {success: false, error: {code, message}} of an error
\* answer: its message is tagged with the call that was answered; a network
\* error or timeout has no response and so no message.
EnvelopeMessages(call, status) ==
    IF status = NoResponse THEN {NoMessage} ELSE {NoMessage, <<call>>}

DefaultMessage(kind) ==
    IF kind = "login" THEN <<"Login failed">> ELSE <<"Registration failed">>

\* catch branches of login / register (authStore.ts 48-51, 59-62):
\* error.response?.data?.error?.message || default, thrown as a new Error.
\* A plain gateway call hands the rejection to its caller as it is.
thrownMessage(kind, message) ==
    IF kind \in {"login", "register"} /\ message = NoMessage
    THEN DefaultMessage(kind)
    ELSE message

\* ------------------------------------------------------------- route guard
\* App.tsx: '/' redirects to '/dashboard'; ProtectedRoute sends an
\* unauthenticated visitor of '/dashboard' to '/login'.
Paths == {"/login", "/register", "/dashboard"}
\* Variant of the route guard that renders its children unconditionally.
ProtectedRouteOpen(isAuthenticated) == "/dashboard"

ProtectedRoute(isAuthenticated) ==
    IF ~isAuthenticated THEN "/login" ELSE "/dashboard"
Route(path, isAuthenticated) ==
    IF path \in {"/", "/dashboard"} THEN ProtectedRoute(isAuthenticated) ELSE path

Init ==
    /\ state = InitialState
    /\ localStorage = [refreshToken |-> Null, authStorage |-> partialize(InitialState)]
    /\ location = Route("/", FALSE)
    /\ req = [r \in Requests |-> Idle]
    /\ sinceLogout = FALSE

W == World(state, localStorage)

\* Install the world w; the route guard re-renders on the new state.
\* Variant that installs a world without going to the given path.
InstallStaysOnPage(w, path) ==
    /\ state' = w.state
    /\ localStorage' = w.localStorage
    /\ location' = Route(location, w.state.isAuthenticated)

Install(w, path) ==
    /\ state' = w.state
    /\ localStorage' = w.localStorage
    /\ location' = Route(path, w.state.isAuthenticated)

\* A caller issues a call through the gateway (api.get / login / register):
\* the request interceptor runs and the request goes out.
Issue(r, kind) ==
    /\ req[r].pc = "idle"
    /\ LET config == requestInterceptor([auth |-> NoHeader], state)
       IN req' = [req EXCEPT ![r] = [Idle EXCEPT !.kind = kind,
                                                 !.pc = "inflight",
                                                 !.auth = config.auth,
                                                 !.sends = 1]]
    /\ UNCHANGED <<state, localStorage, location, sinceLogout>>

\* A 2xx answer reaches the caller through the response interceptor's
\* success handler (api.ts 26); login then runs its success branch.
ResponseOk(r, data) ==
    /\ req[r].pc = "inflight"
    /\ LET w1 == IF req[r].kind = "login" THEN loginSuccess(W, data) ELSE W
       IN /\ Install(w1, location)
          /\ req' = [req EXCEPT ![r].pc = "resolved",
                                ![r].result = [kind |-> "response",
                                               attempt |-> req[r].sends,
                                               status |-> Ok],
                                ![r].data = IF req[r].kind = "login"
                                            THEN data ELSE NoData,
                                ![r].touched = @ \/ (w1 # W)]
    /\ sinceLogout' = IF req[r].kind = "login" THEN FALSE ELSE sinceLogout


\* Variant in which the resubmission is awaited inside the try block.
catchCoversRetryAwaited == TRUE

\* The resubmission's promise is returned from the try block without await
\* (api.ts 54), so its rejection does not reach the catch at 55-59.
catchCoversRetry == FALSE

\* Response interceptor, error handler (api.ts 27-63), up to its first
\* suspension: reject, force logout, or start the refresh call.
ResponseError(r, status) ==
    /\ req[r].pc = "inflight"
    /\ \E msg \in EnvelopeMessages(req[r].kind, status) :
       LET error == [kind |-> "error", attempt |-> req[r].sends, status |-> status]
       IN IF shouldRefresh(status, req[r].retry)
          THEN IF localStorage.refreshToken = Null
               THEN /\ Install(logout(W), "/login")
                    /\ req' = [req EXCEPT ![r].retry = TRUE,
                                          ![r].pc = "rejected",
                                          ![r].result = error,
                                          ![r].seen = status,
                                          ![r].message = msg,
                                          ![r].touched = @ \/ (logout(W) # W)]
                    /\ sinceLogout' = TRUE
               ELSE /\ req' = [req EXCEPT ![r].retry = TRUE,
                                          ![r].pc = "refreshing",
                                          ![r].seen = status,
                                          ![r].refreshes = @ + 1]
                    /\ UNCHANGED <<state, localStorage, location, sinceLogout>>
          ELSE IF catchCoversRetry /\ req[r].retry
               THEN /\ Install(logout(W), "/login")
                    /\ req' = [req EXCEPT ![r].pc = "rejected",
                                          ![r].result = error,
                                          ![r].seen = status,
                                          ![r].message = msg,
                                          ![r].touched = @ \/ (logout(W) # W)]
                    /\ sinceLogout' = TRUE
               ELSE /\ req' = [req EXCEPT ![r].pc = "rejected",
                                          ![r].result = error,
                                          ![r].seen = status,
                                          ![r].message = msg]
                    /\ UNCHANGED <<state, localStorage, location, sinceLogout>>

\* The refresh endpoint answers with a new access token (api.ts 48-54):
\* setAccessToken, re-attach, resubmit through the gateway.
RefreshOk(r, token) ==
    /\ req[r].pc = "refreshing"
    /\ req[r].sends < MaxAttempts
    /\ LET w1 == setAccessToken(W, token)
           config == requestInterceptor([auth |-> Bearer(token)], w1.state)
       IN /\ Install(w1, location)
          /\ req' = [req EXCEPT ![r].pc = "inflight",
                                ![r].auth = config.auth,
                                ![r].sends = @ + 1,
                                ![r].data = [NoData EXCEPT !.access_token = token],
                                ![r].touched = @ \/ (w1 # W)]
    /\ UNCHANGED sinceLogout

\* Variant in which the refresh call is made with the gateway instance.
refreshCallThroughGateway == TRUE

\* The client of the refresh call (api.ts 43): axios.post, not api.post, so
\* the gateway's interceptors do not see the call or its answer.
refreshCallIntercepted == FALSE

\* The refresh call fails (api.ts 55-59): forced logout, redirect, reject
\* with the refresh error.  Were the call intercepted, its own 401 would pass
\* the response interceptor as a first 401 and start a further refresh call.
RefreshError(r, status) ==
    /\ req[r].pc = "refreshing"
    /\ IF /\ refreshCallIntercepted
          /\ shouldRefresh(status, FALSE)
          /\ localStorage.refreshToken # Null
       THEN /\ req[r].refreshes < MaxAttempts
            /\ req' = [req EXCEPT ![r].refreshes = @ + 1]
            /\ UNCHANGED <<state, localStorage, location, sinceLogout>>
       ELSE /\ Install(logout(W), "/login")
            /\ \E msg \in EnvelopeMessages("refresh", status) :
                req' = [req EXCEPT ![r].pc = "rejected",
                                   ![r].result = [kind |-> "refreshError",
                                                  attempt |-> req[r].sends,
                                                  status |-> status],
                                   ![r].message = msg,
                                   ![r].touched = @ \/ (logout(W) # W)]
            /\ sinceLogout' = TRUE

\* DashboardPage.handleLogout: logout() then navigate('/login').
handleLogout ==
    /\ location = "/dashboard"
    /\ Install(logout(W), "/login")
    /\ sinceLogout' = TRUE
    /\ UNCHANGED req

\* Client-side navigation to a route of App.tsx.
Navigate(path) ==
    /\ location' = Route(path, state.isAuthenticated)
    /\ location' # location
    /\ UNCHANGED <<state, localStorage, req, sinceLogout>>

\* Page load: the JavaScript heap is discarded, the store is created anew
\* and rehydrated from 'auth-storage'; pending calls are gone.
Restart ==
    /\ LET s1 == rehydrate(localStorage)
       IN Install(World(s1, persist(s1, localStorage)), location)
    /\ req' = [r \in Requests |-> Idle]
    /\ UNCHANGED sinceLogout

\* The caller has consumed a settled call; the slot is free again.
Forget(r) ==
    /\ req[r].pc \in {"resolved", "rejected"}
    /\ req' = [req EXCEPT ![r] = Idle]
    /\ UNCHANGED <<state, localStorage, location, sinceLogout>>

LoginData ==
    [user : Users, access_token : AccessTokens, refresh_token : RefreshTokens]

Next ==
    \/ \E r \in Requests, k \in Kinds : Issue(r, k)
    \/ \E r \in Requests, d \in LoginData : ResponseOk(r, d)
    \/ \E r \in Requests, st \in ErrorStatuses : ResponseError(r, st)
    \/ \E r \in Requests, t \in AccessTokens : RefreshOk(r, t)
    \/ \E r \in Requests, st \in ErrorStatuses : RefreshError(r, st)
    \/ handleLogout
    \/ \E p \in Paths \cup {"/"} : Navigate(p)
    \/ Restart
    \/ \E r \in Requests : Forget(r)

Spec == Init /\ [][Next]_vars

\* ---------------------------------------------------------------- timeouts
\* The gateway instance is created with timeout: 10000 (api.ts 9). The
\* refresh call is made with the bare axios.post (api.ts 43-46), which has no
\* timeout configured: axios' default of 0 means the call never times out.
ApiTimeout == 10000
RefreshTimeout == 0

\* The transport's timer ends a pending call that has a timeout.
TimeoutFires(r) ==
    \/ ApiTimeout > 0 /\ ResponseError(r, NoResponse)
    \/ RefreshTimeout > 0 /\ RefreshError(r, NoResponse)

\* The timers are the only progress the client guarantees when the server
\* never answers.
LiveSpec == Spec /\ \A r \in Requests : WF_vars(TimeoutFires(r))

\* ================================================================== claims
Settled(r) == req[r].pc \in {"resolved", "rejected"}
LoggedOutState == [user |-> Null, accessToken |-> Null, isAuthenticated |-> FALSE]

\* C1: a request whose 401 was answered by a successful refresh has made
\* exactly one refresh call and has been submitted exactly twice, and once
\* it settles the caller holds the outcome of the second submission.
C1_OneRefreshOneRetry ==
    \A r \in Requests :
        (/\ req[r].refreshes >= 1
         /\ req[r].pc # "refreshing"
         /\ req[r].result.kind # "refreshError")
        => /\ req[r].refreshes = 1
           /\ req[r].sends = 2
           /\ req[r].retry
           /\ Settled(r) => req[r].result.attempt = 2

C1_Witness ==
    \E r \in Requests :
        /\ req[r].pc = "resolved"
        /\ req[r].refreshes = 1
        /\ req[r].sends = 2
        /\ req[r].result = [kind |-> "response", attempt |-> 2, status |-> Ok]

\* C2: a request makes at most one refresh call and is submitted at most
\* twice; any answer to a resubmitted request, a 401 included, settles the
\* call without a further refresh call or submission.
C2_NoSecondRefresh ==
    /\ [](\A r \in Requests : req[r].refreshes <= 1 /\ req[r].sends <= 2)
    /\ [][\A r \in Requests :
            (/\ req[r].pc = "inflight"
             /\ req[r].retry
             /\ req'[r] # req[r]
             /\ req'[r].pc # "idle")
            => /\ Settled(r)'
               /\ req'[r].refreshes = req[r].refreshes
               /\ req'[r].sends = req[r].sends]_vars

C2_Witness ==
    \E r \in Requests :
        /\ req[r].pc = "rejected"
        /\ req[r].refreshes = 1
        /\ req[r].sends = 2
        /\ req[r].result = [kind |-> "error", attempt |-> 2, status |-> Unauthorized]

\* C3: a first 401 with no refresh credential in durable storage forces
\* logout, starts no refresh call, and rejects the caller with that 401
\* error; the rejected request is not submitted again.
C3_NoCredentialForcesLogout ==
    [][\A r \in Requests :
        /\ (/\ req[r].pc = "inflight"
            /\ ~req[r].retry
            /\ localStorage.refreshToken = Null
            /\ \/ req'[r].pc = "refreshing"
               \/ req'[r].pc = "rejected" /\ req'[r].result.status = Unauthorized)
           => /\ req'[r].pc = "rejected"
              /\ state' = LoggedOutState
              /\ req'[r].refreshes = 0
              /\ req'[r].sends = req[r].sends
              /\ req'[r].result = [kind |-> "error", attempt |-> req[r].sends,
                                   status |-> Unauthorized]
        /\ req[r].pc = "rejected" => req'[r].pc \in {"rejected", "idle"}]_vars

C3_Witness ==
    \E r \in Requests :
        /\ req[r].pc = "rejected"
        /\ req[r].retry
        /\ req[r].refreshes = 0
        /\ req[r].sends = 1
        /\ req[r].result = [kind |-> "error", attempt |-> 1, status |-> Unauthorized]
        /\ req[r].touched
        /\ state = LoggedOutState
        /\ location = "/login"

\* C4: when the refresh call fails the session is cleared in full, the
\* durable refresh credential is deleted, the request is not resubmitted and
\* the caller is rejected with the refresh error.
C4_RefreshFailureClearsSession ==
    [][\A r \in Requests :
        (req[r].pc = "refreshing" /\ req'[r].pc = "rejected")
        => /\ state' = LoggedOutState
           /\ localStorage'.refreshToken = Null
           /\ req'[r].sends = req[r].sends
           /\ req'[r].result.kind = "refreshError"]_vars

C4_Witness ==
    \E r \in Requests :
        /\ req[r].pc = "rejected"
        /\ req[r].result.kind = "refreshError"
        /\ req[r].sends = 1
        /\ req[r].touched
        /\ state = LoggedOutState
        /\ localStorage.refreshToken = Null

\* C5: once logout has run and until a login succeeds, every submission of
\* a request through the gateway goes out without an Authorization header.
C5_NoHeaderAfterLogout ==
    [][\A r \in Requests :
        (sinceLogout /\ req'[r].sends = req[r].sends + 1)
        => req'[r].auth = NoHeader]_vars

\* C6: isAuthenticated equals (user != null) in every reachable state.
C6_AuthenticatedIffUser ==
    state.isAuthenticated = (state.user # Null)

\* C7: while isAuthenticated holds, user and accessToken are both present;
\* a successful refresh replaces accessToken and leaves user and
\* isAuthenticated as they were.
C7_AuthenticatedHasUserAndToken ==
    /\ [](state.isAuthenticated => state.user # Null /\ state.accessToken # Null)
    /\ [][\A r \in Requests :
            (req[r].pc = "refreshing" /\ req'[r].pc = "inflight")
            => /\ state'.user = state.user
               /\ state'.isAuthenticated = state.isAuthenticated
               /\ state'.accessToken \in AccessTokens
               /\ req'[r].auth = Bearer(state'.accessToken)]_vars

C7_Witness ==
    /\ state.isAuthenticated
    /\ \E r \in Requests :
        /\ req[r].pc = "inflight"
        /\ req[r].sends = 2
        /\ req[r].touched
        /\ req[r].auth = Bearer(state.accessToken)

\* C8: whenever the session is logged out (no user, flag false) the access
\* token is absent.
C8_LoggedOutHasNoToken ==
    (state.user = Null /\ ~state.isAuthenticated) => state.accessToken = Null

\* C9: the step that resolves a login call leaves user, accessToken and the
\* durable refresh credential equal to the values of the response, with
\* isAuthenticated true.
C9_LoginStoresResponse ==
    [][\A r \in Requests :
        (req[r].kind = "login" /\ req[r].pc = "inflight" /\ req'[r].pc = "resolved")
        => /\ req'[r].data \in LoginData
           /\ state' = [user |-> req'[r].data.user,
                        accessToken |-> req'[r].data.access_token,
                        isAuthenticated |-> TRUE]
           /\ localStorage'.refreshToken = req'[r].data.refresh_token]_vars

C9_Witness ==
    \E r \in Requests :
        /\ req[r].kind = "login"
        /\ req[r].pc = "resolved"
        /\ req[r].data \in LoginData
        /\ state.isAuthenticated
        /\ state.user = req[r].data.user
        /\ state.accessToken = req[r].data.access_token
        /\ localStorage.refreshToken = req[r].data.refresh_token

\* C10: a login or register call that ends rejected has changed neither the
\* session store nor durable storage in any of its own steps.
C10_FailedLoginLeavesState ==
    \A r \in Requests :
        (req[r].kind \in {"login", "register"} /\ req[r].pc = "rejected")
        => ~req[r].touched

\* C11: a rejected login or register call raises the message of its own
\* response, or the fixed default when that response has none; it never
\* raises the message of another call.
C11_OwnMessageSurfaced ==
    \A r \in Requests :
        (req[r].kind \in {"login", "register"} /\ req[r].pc = "rejected")
        => thrownMessage(req[r].kind, req[r].message)
               \in {<<req[r].kind>>, DefaultMessage(req[r].kind)}

ClearedStorage == [refreshToken |-> Null, authStorage |-> [user |-> Null]]

\* C12: logout, from whatever state it is called in, leaves user and
\* accessToken absent, isAuthenticated false and no refresh credential in
\* durable storage; running it again changes nothing.
C12_LogoutClearsIdempotent ==
    /\ [](/\ logout(W).state = LoggedOutState
          /\ logout(W).localStorage = ClearedStorage
          /\ logout(logout(W)) = logout(W))
    /\ [][(\/ ~sinceLogout /\ sinceLogout'
           \/ state.user # Null /\ state'.user = Null)
          => /\ state' = LoggedOutState
             /\ localStorage' = ClearedStorage]_vars

C12_Witness ==
    \E r \in Requests, q \in Requests :
        /\ q # r
        /\ req[q].pc = "rejected"
        /\ req[q].result.kind = "refreshError"
        /\ req[r].pc = "rejected"
        /\ req[r].result = [kind |-> "error", attempt |-> 1, status |-> Unauthorized]
        /\ req[r].retry
        /\ ~req[r].touched
        /\ sinceLogout
        /\ state = LoggedOutState
        /\ localStorage = ClearedStorage

\* C13: setAccessToken replaces accessToken and nothing else (user,
\* isAuthenticated, the persisted blob and the refresh credential stay), and
\* the only step that installs a new access token besides a resolving login
\* is the refresh sub-flow resubmitting its request.
C13_SetAccessTokenFrame ==
    /\ [](\A t \in AccessTokens :
            /\ setAccessToken(W, t).state = [state EXCEPT !.accessToken = t]
            /\ setAccessToken(W, t).localStorage = localStorage)
    /\ [][(state'.accessToken # state.accessToken /\ state'.accessToken # Null)
          => \/ \E r \in Requests :
                  /\ req[r].kind = "login"
                  /\ req[r].pc = "inflight"
                  /\ req'[r].pc = "resolved"
             \/ \E r \in Requests :
                  /\ req[r].pc = "refreshing"
                  /\ req'[r].pc = "inflight"
                  /\ state' = [state EXCEPT !.accessToken = state'.accessToken]
                  /\ localStorage' = localStorage]_vars

C13_Witness ==
    \E r \in Requests :
        /\ req[r].pc = "inflight"
        /\ req[r].sends = 2
        /\ req[r].touched
        /\ req[r].auth = Bearer(state.accessToken)
        /\ state.user # Null
        /\ localStorage.authStorage.user = state.user
        /\ localStorage.refreshToken # Null

\* C14: the blob under 'auth-storage' holds the user field only, equal to
\* the store's user; the refresh credential is kept under its own key and
\* no token is part of the blob.
C14_PersistedBlobIsUserOnly ==
    /\ DOMAIN localStorage = {"refreshToken", "authStorage"}
    /\ DOMAIN localStorage.authStorage = {"user"}
    /\ localStorage.authStorage.user = state.user

C14_Witness ==
    /\ state.user # Null
    /\ state.accessToken # Null
    /\ localStorage.refreshToken # Null
    /\ localStorage.authStorage = [user |-> state.user]

\* C15: a page load that discards pending calls leaves user equal to the
\* persisted user, accessToken absent and isAuthenticated false, with
\* durable storage as it was; rehydration yields this from every reachable
\* storage, and after a logout no refresh credential is left to survive it.
C15_RehydratedSession ==
    /\ [](/\ rehydrate(localStorage) = [user |-> localStorage.authStorage.user,
                                        accessToken |-> Null,
                                        isAuthenticated |-> FALSE]
          /\ sinceLogout => localStorage.refreshToken = Null)
    /\ [][(\E r \in Requests :
              req[r].pc \in {"inflight", "refreshing"} /\ req'[r].pc = "idle")
          => /\ state' = [user |-> localStorage.authStorage.user,
                          accessToken |-> Null,
                          isAuthenticated |-> FALSE]
             /\ localStorage' = localStorage
             /\ \A q \in Requests : req'[q] = Idle]_vars

C15_Witness ==
    /\ state.user # Null
    /\ state.user = localStorage.authStorage.user
    /\ state.accessToken = Null
    /\ ~state.isAuthenticated
    /\ localStorage.refreshToken # Null
    /\ \A r \in Requests : req[r] = Idle

\* C16: an error answer other than 401 (another status, a network error, a
\* timeout) is handed to the caller as it is: no refresh call, no
\* resubmission, no change of the session store, of durable storage or of
\* the route.
C16_OtherErrorsPassThrough ==
    [][\A r \in Requests :
        (/\ req[r].pc = "inflight"
         /\ req'[r].pc \in {"rejected", "refreshing"}
         /\ req'[r].seen # Unauthorized)
        => /\ req'[r].pc = "rejected"
           /\ req'[r].result = [kind |-> "error", attempt |-> req[r].sends,
                                status |-> req'[r].seen]
           /\ req'[r].refreshes = req[r].refreshes
           /\ req'[r].sends = req[r].sends
           /\ req'[r].retry = req[r].retry
           /\ UNCHANGED <<state, localStorage, location>>]_vars

C16_Witness ==
    \E r \in Requests :
        /\ req[r].pc = "rejected"
        /\ req[r].result = [kind |-> "error", attempt |-> 1, status |-> ServerError]
        /\ req[r].refreshes = 0
        /\ ~req[r].retry
        /\ ~req[r].touched
        /\ state.isAuthenticated
        /\ localStorage.refreshToken # Null

\* C17: a first 401 with a refresh credential stored starts a refresh call
\* of the request's own, whatever the other requests are doing; refresh
\* calls of several requests are in flight together.
C17_NoSingleFlight ==
    [][\A r \in Requests :
        (/\ req[r].pc = "inflight"
         /\ ~req[r].retry
         /\ localStorage.refreshToken # Null
         /\ req'[r].pc \in {"rejected", "refreshing"}
         /\ req'[r].seen = Unauthorized)
        => /\ req'[r].pc = "refreshing"
           /\ req'[r].refreshes = req[r].refreshes + 1]_vars

C17_Witness ==
    \A r \in Requests : req[r].pc = "refreshing" /\ req[r].refreshes = 1

\* C18: a resolving login and a logout each write all their fields in one
\* step, whatever ran before: the login response leaves the session
\* authenticated with the returned values and the refresh credential stored,
\* also when a logout ran while the login was pending; a logout leaves the
\* session and the credential cleared, also right after a login response.
C18_LastWriteWins ==
    [][/\ \A r \in Requests :
            (/\ req[r].kind = "login"
             /\ req[r].pc = "inflight"
             /\ req'[r].pc = "resolved")
            => /\ state' = [user |-> req'[r].data.user,
                            accessToken |-> req'[r].data.access_token,
                            isAuthenticated |-> TRUE]
               /\ localStorage' = [refreshToken |-> req'[r].data.refresh_token,
                                   authStorage |-> [user |-> req'[r].data.user]]
       /\ (state.isAuthenticated /\ state'.user = Null)
          => /\ state' = LoggedOutState
             /\ localStorage' = ClearedStorage]_vars

\* A login issued while a session existed (it went out with a bearer header)
\* has resolved after a forced logout cleared that session.
C18_Witness ==
    \E r \in Requests, q \in Requests :
        /\ q # r
        /\ req[q].pc = "rejected"
        /\ req[q].result.kind = "refreshError"
        /\ req[r].kind = "login"
        /\ req[r].pc = "resolved"
        /\ req[r].sends = 1
        /\ req[r].auth # NoHeader
        /\ state = [user |-> req[r].data.user,
                    accessToken |-> req[r].data.access_token,
                    isAuthenticated |-> TRUE]
        /\ localStorage.refreshToken = req[r].data.refresh_token

\* C19: every call that is pending, the refresh call included, eventually
\* settles (or is discarded by a page load), even if the server never
\* answers.
C19_EveryCallSettles ==
    \A r \in Requests :
        (req[r].pc \in {"inflight", "refreshing"})
            ~> (req[r].pc \in {"resolved", "rejected", "idle"})

\* Under the same timers a request on the wire does leave the wire.
GatewayCallSettles ==
    \A r \in Requests : (req[r].pc = "inflight") ~> (req[r].pc # "inflight")

\* C20: a register call that ends resolved has changed neither the session
\* store nor durable storage in any of its own steps.
C20_RegisterLeavesState ==
    \A r \in Requests :
        (req[r].kind = "register" /\ req[r].pc = "resolved") => ~req[r].touched

\* C21: every send through the gateway carries 'Bearer <accessToken>' of the
\* store as it is at send time when that token is non-null and no
\* Authorization header when it is null, and the request interceptor itself
\* writes nothing: a first send leaves the store and durable storage as they
\* were, a resubmission leaves them as setAccessToken made them.
C21_InterceptorAttachesStoreToken ==
    [][\A r \in Requests :
          req'[r].sends = req[r].sends + 1 =>
              /\ state'.accessToken # Null =>
                     req'[r].auth = Bearer(state'.accessToken)
              /\ state'.accessToken = Null => req'[r].auth = NoHeader
              /\ req[r].sends = 0 =>
                     /\ state' = state
                     /\ localStorage' = localStorage
              /\ req[r].sends > 0 =>
                     World(state', localStorage') =
                         setAccessToken(W, state'.accessToken)]_vars

\* One request in flight was sent without a header, another with the
\* store's token.
C21_Witness ==
    \E r, q \in Requests :
        /\ req[r].pc = "inflight" /\ req[r].sends = 1
        /\ req[r].auth = NoHeader
        /\ req[q].pc = "inflight" /\ req[q].sends = 1
        /\ state.accessToken # Null
        /\ req[q].auth = Bearer(state.accessToken)

\* C22: an answer of the refresh endpoint never starts another refresh call:
\* a request waiting for its refresh call either is resubmitted or is
\* rejected with the refresh error, whatever the error status (a 401
\* included), and its count of refresh calls stays as it was.
C22_RefreshErrorStartsNoRefresh ==
    [][\A r \in Requests :
          (/\ req[r].pc = "refreshing"
           /\ req'[r] # req[r]
           /\ req'[r].pc # "idle") =>
              /\ req'[r].refreshes = req[r].refreshes
              /\ req'[r].refreshes = 1
              /\ \/ req'[r].pc = "inflight"
                 \/ /\ req'[r].pc = "rejected"
                    /\ req'[r].result.kind = "refreshError"]_vars

\* The refresh endpoint answered 401 and the request was rejected after its
\* single refresh call.
C22_Witness ==
    \E r \in Requests :
        /\ req[r].pc = "rejected"
        /\ req[r].result = [kind |-> "refreshError", attempt |-> 1,
                            status |-> Unauthorized]
        /\ req[r].refreshes = 1

\* C23: when a request's refresh call succeeds with token T, the store's
\* accessToken becomes T, the user stays as it was, and the request is
\* resubmitted with Authorization 'Bearer T', T being the token of that
\* request's own refresh answer, whatever other refresh calls or logouts ran
\* in between.
C23_ResubmittedWithOwnToken ==
    [][\A r \in Requests :
          (req[r].pc = "refreshing" /\ req'[r].pc = "inflight") =>
              /\ req'[r].data.access_token \in AccessTokens
              /\ state'.accessToken = req'[r].data.access_token
              /\ req'[r].auth = Bearer(req'[r].data.access_token)
              /\ state'.user = state.user
              /\ req'[r].sends = req[r].sends + 1]_vars

\* Two requests were resubmitted after refresh calls of their own that
\* returned different tokens, with a logout in between the first 401 and the
\* refresh answers.
C23_Witness ==
    \E r, q \in Requests :
        /\ req[r].pc = "inflight" /\ req[r].sends = 2
        /\ req[q].pc = "inflight" /\ req[q].sends = 2
        /\ req[r].data.access_token # req[q].data.access_token
        /\ req[r].auth = Bearer(req[r].data.access_token)
        /\ req[q].auth = Bearer(req[q].data.access_token)
        /\ state.accessToken = req[q].data.access_token
        /\ sinceLogout
        /\ state.user = Null

\* C24: the dashboard is shown only while isAuthenticated is true; in every
\* state with isAuthenticated false a navigation to /dashboard or to / ends
\* at /login, also after a restart that rehydrated a user while the refresh
\* credential is still stored.
C24_DashboardOnlyWhenAuthenticated ==
    /\ location = "/dashboard" => state.isAuthenticated
    /\ ~state.isAuthenticated =>
           \A p \in {"/", "/dashboard"} :
               Route(p, state.isAuthenticated) = "/login"

\* After a restart: a rehydrated user, the flag false, the refresh
\* credential still stored, and the browser at /login.
C24_Witness ==
    /\ state.user # Null
    /\ ~state.isAuthenticated
    /\ localStorage.refreshToken # Null
    /\ location = "/login"

\* C25: a step of the gateway sends the browser to /login exactly when it
\* forces a logout, that is on a first 401 with no refresh credential stored
\* and on a failed refresh call; the browser then is at /login with the
\* session and the credential cleared.  Every other step of the gateway (a
\* refresh call started or answered with a token, an error other than 401, a
\* 401 on a resubmitted request, a success) leaves the route where it is and
\* clears neither the session nor the credential.
C25_RedirectIffForcedLogout ==
    [][\A r \in Requests :
          (/\ req[r].pc \in {"inflight", "refreshing"}
           /\ req'[r] # req[r]
           /\ req'[r].pc # "idle") =>
              IF \/ req[r].pc = "refreshing" /\ req'[r].pc = "rejected"
                 \/ /\ req[r].pc = "inflight"
                    /\ ~req[r].retry
                    /\ req'[r].seen = Unauthorized
                    /\ req'[r].pc = "rejected"
                    /\ localStorage.refreshToken = Null
              THEN /\ location' = "/login"
                   /\ state' = LoggedOutState
                   /\ localStorage' = ClearedStorage
                   /\ sinceLogout'
              ELSE /\ location' = location
                   /\ sinceLogout' => sinceLogout
                   /\ state.isAuthenticated => state'.isAuthenticated
                   /\ state.user # Null => state'.user # Null
                   /\ localStorage.refreshToken # Null =>
                          localStorage'.refreshToken # Null]_vars

\* Both forced logouts happened: one request was rejected by a failed
\* refresh call, another by a 401 with no credential stored, and the
\* browser is at /login with everything cleared.
C25_Witness ==
    \E r, q \in Requests :
        /\ req[r].pc = "rejected"
        /\ req[r].result.kind = "refreshError"
        /\ req[q].pc = "rejected"
        /\ req[q].result = [kind |-> "error", attempt |-> 1,
                            status |-> Unauthorized]
        /\ req[q].refreshes = 0
        /\ req[q].kind = "register"
        /\ location = "/login"
        /\ state = LoggedOutState
        /\ localStorage = ClearedStorage

\* C26: when a resubmitted request fails, with a 401 or with any other
\* error, the failure goes to the caller and nothing else happens: the
\* session store (access token of the refresh included), the durable
\* refresh credential and the route stay as they were.
C26_RetryFailureNoLogout ==
    [][\A r \in Requests :
          (/\ req[r].pc = "inflight"
           /\ req[r].retry
           /\ req'[r].pc = "rejected") =>
              /\ state' = state
              /\ localStorage' = localStorage
              /\ location' = location
              /\ req'[r].result = [kind |-> "error",
                                   attempt |-> req[r].sends,
                                   status |-> req'[r].seen]
              /\ req'[r].touched = req[r].touched]_vars

\* A resubmitted request failed with a server error; the session is still
\* authenticated with the token of the refresh and the credential is kept.
C26_Witness ==
    \E r \in Requests :
        /\ req[r].pc = "rejected"
        /\ req[r].result = [kind |-> "error", attempt |-> 2,
                            status |-> ServerError]
        /\ state.isAuthenticated
        /\ state.accessToken = req[r].data.access_token
        /\ localStorage.refreshToken # Null

\* C27: in every reachable state, isAuthenticated true implies that a
\* refresh credential is present in durable storage.
C27_AuthenticatedHasCredential ==
    state.isAuthenticated => localStorage.refreshToken \in RefreshTokens

\* A login resolved and the session is authenticated with the credential of
\* the login answer in durable storage.
C27_Witness ==
    /\ state.isAuthenticated
    /\ \E r \in Requests :
        /\ req[r].kind = "login"
        /\ req[r].pc = "resolved"
        /\ req[r].data.refresh_token \in RefreshTokens
        /\ localStorage.refreshToken = req[r].data.refresh_token

\* C28: isAuthenticated goes from false to true only in the step in which a
\* login call resolves; a refresh answer (setAccessToken), a register call
\* and the rehydration of a persisted user never set it.
C28_OnlyLoginAuthenticates ==
    [][(~state.isAuthenticated /\ state'.isAuthenticated) =>
          \E r \in Requests :
              /\ req[r].kind = "login"
              /\ req[r].pc = "inflight"
              /\ req'[r].pc = "resolved"
              /\ state'.user = req'[r].data.user]_vars

\* A refresh call succeeded in a rehydrated session (user present, flag
\* false) and a register call resolved: the flag is still false.
C28_Witness ==
    /\ ~state.isAuthenticated
    /\ state.user # Null
    /\ state.accessToken # Null
    /\ \E r, q \in Requests :
        /\ req[r].sends = 2
        /\ req[r].touched
        /\ req[q].kind = "register"
        /\ req[q].pc = "resolved"

====
